---- MODULE Spec2Model ----
(***************************************************************************)
(* State-machine model of the bevy-game gameplay scripts.                  *)
(*                                                                         *)
(*   src/src/mymain.rs         the rotation demo game: setup, the five     *)
(*                             FixedUpdate systems and the enemy spawner   *)
(*   src/src/game/movement.rs  the movement plugin: input recording,       *)
(*                             movement integration, window wrap, step sfx *)
(*                                                                         *)
(* Numbers.  f32 values are modelled in fixed point:                       *)
(*   - time is counted in fixed timesteps of 1/FixedHz s;                  *)
(*   - lengths are counted in 1/PosScale pixel;                            *)
(*   - angles are counted in AngleUnits per revolution (0.75 degree), and  *)
(*     a unit vector is represented by its polar angle, so that the dot    *)
(*     product of two unit vectors is the cosine of the angle between them *)
(*     and acos of such a dot product is that angle.  sin and cos come     *)
(*     from a table scaled by TrigScale.                                   *)
(* NaN (the normalisation of a zero vector) is carried as a flag.          *)
(***************************************************************************)
EXTENDS Integers, Sequences, FiniteSets, TLC

VARIABLES
    ents,        \* the ECS world: a sequence of entities (components + values)
    status,      \* "running" | "exit0" (std::process::exit(0)) | "panic"
    keys,        \* ButtonInput<KeyCode>: the set of keys currently pressed
    keyEvents,   \* number of key press/release events so far (bounded)
    delta,       \* Time::delta() of the current frame, in timesteps
    acc,         \* Time<Fixed> accumulated overstep, in timesteps
    greet,       \* GreetTimer: elapsed time of the repeating spawn timer
    spawned,     \* number of entities created by spawn_enemy_system
    ticks,       \* number of FixedUpdate runs started so far
    phase,       \* "First" | "FixedUpdate" | "Update": position in the frame
    pc,          \* index into order of the next FixedUpdate system to run
    order,       \* the execution order of the FixedUpdate schedule
    ran,         \* history: systems run in the current (or last) tick/frame
    hits,        \* history: number of collision hits applied so far
    mover,       \* movement.rs: the controlled entity
    window,      \* movement.rs: size of the primary window, in pixels
    cues,        \* movement.rs: number of Sfx::Step triggers so far
    sinceCue     \* history: time ticked into the cooldown since the last cue

gameVars == <<ents, status, keys, keyEvents, delta, acc, greet, spawned,
              ticks, phase, pc, order, ran, hits>>
moveVars == <<mover, window, cues, sinceCue>>
vars == <<ents, status, keys, keyEvents, delta, acc, greet, spawned,
          ticks, phase, pc, order, ran, hits, mover, window, cues, sinceCue>>

----------------------------------------------------------------------------
(* Bounds of the model.                                                    *)

\* FixedUpdate runs explored per behaviour
MaxTicks == 135
\* entities the spawner may create
MaxSpawned == 1
\* key press and release events per behaviour
MaxKeyEvents == 1
\* FixedUpdate runs explored per behaviour when every schedule order is tried
MaxOrderTicks == 15

----------------------------------------------------------------------------
(* Program constants.                                                      *)

BOUNDS_x == 1200
BOUNDS_y == 640
FixedHz == 60
GreetSeconds == 2
InitialHealth == 100
Damage == 10
collision_distance == 30

----------------------------------------------------------------------------
(* Fixed-point arithmetic.                                                 *)

\* sin(k * 0.75 degree) * 10000 for k = 0..120, rounded
SinT ==
   << 0, 131, 262, 393, 523, 654, 785, 915, 1045, 1175, 1305,
      1435, 1564, 1693, 1822, 1951, 2079, 2207, 2334, 2462, 2588, 2714,
      2840, 2965, 3090, 3214, 3338, 3461, 3584, 3706, 3827, 3947, 4067,
      4187, 4305, 4423, 4540, 4656, 4772, 4886, 5000, 5113, 5225, 5336,
      5446, 5556, 5664, 5771, 5878, 5983, 6088, 6191, 6293, 6394, 6494,
      6593, 6691, 6788, 6884, 6978, 7071, 7163, 7254, 7343, 7431, 7518,
      7604, 7688, 7771, 7853, 7934, 8013, 8090, 8166, 8241, 8315, 8387,
      8457, 8526, 8594, 8660, 8725, 8788, 8850, 8910, 8969, 9026, 9081,
      9135, 9188, 9239, 9288, 9336, 9382, 9426, 9469, 9511, 9550, 9588,
      9625, 9659, 9692, 9724, 9753, 9781, 9808, 9833, 9856, 9877, 9897,
      9914, 9931, 9945, 9958, 9969, 9979, 9986, 9992, 9997, 9999, 10000 >>

QuarterTurn == Len(SinT) - 1
HalfTurn == 2 * QuarterTurn
AngleUnits == 4 * QuarterTurn
TrigScale == SinT[Len(SinT)]
\* length units per pixel: a speed of 10 px/s is one unit per timestep
PosScale == FixedHz \div 10

Abs(n) == IF n < 0 THEN -n ELSE n

\* n / d rounded to the nearest integer (d > 0), halves away from zero
RoundDiv(n, d) ==
    IF n >= 0 THEN (2 * n + d) \div (2 * d)
    ELSE -((2 * (-n) + d) \div (2 * d))

\* an angle reduced to 0 .. AngleUnits-1
Reduce(a) == ((a % AngleUnits) + AngleUnits) % AngleUnits

\* an angle difference reduced to -HalfTurn+1 .. HalfTurn
Signed(a) == IF Reduce(a) > HalfTurn THEN Reduce(a) - AngleUnits ELSE Reduce(a)

Sin(a) ==
    LET w == Reduce(a)
    IN  IF w <= QuarterTurn THEN SinT[w + 1]
        ELSE IF w <= HalfTurn THEN SinT[HalfTurn - w + 1]
        ELSE IF w <= HalfTurn + QuarterTurn THEN -SinT[w - HalfTurn + 1]
        ELSE -SinT[AngleUnits - w + 1]

Cos(a) == Sin(a + QuarterTurn)

\* f32::acos of a cosine value: the least angle in 0..HalfTurn whose cosine
\* is at most c (Cos is strictly decreasing on 0..HalfTurn)
RECURSIVE ACosSearch(_, _, _)
ACosSearch(c, lo, hi) ==
    IF lo = hi THEN lo
    ELSE LET mid == (lo + hi) \div 2
         IN  IF Cos(mid) <= c THEN ACosSearch(c, lo, mid)
             ELSE ACosSearch(c, mid + 1, hi)

ACos(c) == ACosSearch(c, 0, HalfTurn)

\* f32::clamp
ClampTo(v, lo, hi) == IF v < lo THEN lo ELSE IF v > hi THEN hi ELSE v

\* f32::copysign(1.0, x): +0.0 gives 1.0
CopySign1(x) == IF x < 0 THEN -1 ELSE 1

Min(a, b) == IF a < b THEN a ELSE b

\* for x >= 0, y >= 0, not both 0: the largest k in lo..hi such that the
\* unit vector at polar angle k is not counter-clockwise past (x, y)
RECURSIVE QuadrantSearch(_, _, _, _)
QuadrantSearch(x, y, lo, hi) ==
    IF lo = hi THEN lo
    ELSE LET mid == (lo + hi + 1) \div 2
         IN  IF Cos(mid) * y - Sin(mid) * x >= 0
             THEN QuadrantSearch(x, y, mid, hi)
             ELSE QuadrantSearch(x, y, lo, mid - 1)

\* for x >= 0, y >= 0, not both 0: the angle unit nearest to atan2(y, x)
QuadrantAngle(x, y) ==
    LET k == QuadrantSearch(x, y, 0, QuarterTurn)
    IN  IF k < QuarterTurn
           /\ Cos(k + 1) * x + Sin(k + 1) * y > Cos(k) * x + Sin(k) * y
        THEN k + 1 ELSE k

\* the polar angle of (x, y) # (0, 0), counter-clockwise from +X
PolarAngle(x, y) ==
    IF x > 0 /\ y >= 0 THEN QuadrantAngle(x, y)
    ELSE IF x <= 0 /\ y > 0 THEN QuarterTurn + QuadrantAngle(y, -x)
    ELSE IF x < 0 /\ y <= 0 THEN HalfTurn + QuadrantAngle(-x, -y)
    ELSE Reduce(HalfTurn + QuarterTurn + QuadrantAngle(-y, x))

----------------------------------------------------------------------------
(* Vectors, rotations and transforms.                                      *)

Vec3(x, y, z) == [x |-> x, y |-> y, z |-> z]

\* a pixel length in model units
Px(p) == p * PosScale

\* A rotation about Z by angle units; nan: every component is NaN.
\* The same record stands for a 2D unit vector: the image of Vec3::Y.
Rot(a) == [nan |-> FALSE, angle |-> Reduce(a)]
NaNRot == [nan |-> TRUE, angle |-> 0]

\* Vec2::normalize, as the direction of the vector; the zero vector has
\* length 0, its reciprocal is inf and 0 * inf is NaN
Normalize(x, y) ==
    IF x = 0 /\ y = 0 THEN NaNRot
    ELSE Rot(PolarAngle(x, y) - QuarterTurn)

\* Vec2::dot of two unit vectors, scaled by TrigScale
Dot(u, v) == Cos(v.angle - u.angle)

\* rotation * Vec3::Y and rotation * Vec3::X, as directions
Forward(rotation) == Rot(rotation.angle)
Right(rotation) == Rot(rotation.angle - QuarterTurn)

\* the angle turned in dt timesteps at degrees_per_second
AngleDelta(degrees_per_second, dt) ==
    RoundDiv(degrees_per_second * dt * AngleUnits, 360 * FixedHz)

\* Transform::rotate_z
rotate_z(rotation, a) ==
    IF rotation.nan THEN rotation ELSE Rot(rotation.angle + a)

\* direction * (speed * delta_seconds), speed in px/s: the translation delta
TranslationDelta(direction, speed, dt) ==
    Vec3(RoundDiv(speed * dt * PosScale * (-Sin(direction.angle)),
                  FixedHz * TrigScale),
         RoundDiv(speed * dt * PosScale * Cos(direction.angle),
                  FixedHz * TrigScale),
         0)

VecAdd(a, b) == Vec3(a.x + b.x, a.y + b.y, a.z + b.z)

\* Vec3::from((BOUNDS / 2.0, 0.0))
Extents == Vec3(Px(BOUNDS_x) \div 2, Px(BOUNDS_y) \div 2, 0)

\* mutant of ClampToBounds: the translation is not bounded
ClampToBounds_none(t, nan) == t

\* translation.min(extents).max(-extents); f32::min and f32::max return
\* the other operand when one is NaN, so a NaN translation becomes extents
ClampToBounds(t, nan) ==
    IF nan THEN Extents
    ELSE Vec3(ClampTo(t.x, -Extents.x, Extents.x),
              ClampTo(t.y, -Extents.y, Extents.y),
              ClampTo(t.z, -Extents.z, Extents.z))

\* player_translation.distance(enemy_translation) < d, in squares
DistanceLess(a, b, d) ==
    (a.x - b.x) * (a.x - b.x) + (a.y - b.y) * (a.y - b.y)
      + (a.z - b.z) * (a.z - b.z) < d * d

----------------------------------------------------------------------------
(* The ECS world.                                                          *)

Entity(comps, translation, movement_speed, rotation_speed, health) ==
    [comps |-> comps, translation |-> translation, rotation |-> Rot(0),
     movement_speed |-> movement_speed, rotation_speed |-> rotation_speed,
     health |-> health]

\* whether an entity matches Query<.., (With<..>, Without<..>)>
Matches(e, with, without) ==
    with \subseteq e.comps /\ without \cap e.comps = {}

\* Query<.., (With<..>, Without<..>)>: the matching entities
Query(es, with, without) ==
    {i \in DOMAIN es : Matches(es[i], with, without)}

\* the entity a single() / single_mut() returns
Single(q) == CHOOSE i \in q : TRUE

----------------------------------------------------------------------------
(* mymain.rs: setup.                                                       *)

\* the components every SpriteBundle / Camera2dBundle carries
Bundle == {"Transform"}

\* setup: the camera, the player ship and the four enemy ships
setup ==
    LET horizontal_margin == Px(BOUNDS_x) \div 4
        vertical_margin == Px(BOUNDS_y) \div 4
    IN << Entity(Bundle \cup {"Camera"}, Vec3(0, 0, 0), 0, 0, 0),
          Entity(Bundle \cup {"Player", "Health"}, Vec3(0, 0, 0),
                 500, 360, InitialHealth),
          Entity(Bundle \cup {"SnapToPlayer", "EnemyMove", "Enemy"},
                 Vec3(0 - horizontal_margin, 0, 0), 100, 0, 0),
          Entity(Bundle \cup {"SnapToPlayer", "EnemyMove", "Enemy"},
                 Vec3(0, 0 - vertical_margin, 0), 160, 0, 0),
          Entity(Bundle \cup {"RotateToPlayer", "EnemyMove", "Enemy"},
                 Vec3(0 + horizontal_margin, 0, 0), 100, 45, 0),
          Entity(Bundle \cup {"RotateToPlayer", "EnemyMove"},
                 Vec3(0, 0 + vertical_margin, 0), 200, 90, 0) >>

----------------------------------------------------------------------------
(* mymain.rs: the FixedUpdate systems, as functions of the world.          *)

Keys == {"ArrowLeft", "ArrowRight", "ArrowUp"}

\* Res<Time>::delta() inside FixedUpdate: one fixed timestep
FixedDelta == FixedHz \div FixedHz

PlayerQuery(es) == Query(es, {"Player", "Transform"}, {})

\* player_movement_system, the body after query.single_mut()
PlayerMovement(es, input, dt) ==
    LET p == Single(PlayerQuery(es))
        ship == es[p]
        rotation_factor ==
            (IF "ArrowLeft" \in input THEN 1 ELSE 0)
              - (IF "ArrowRight" \in input THEN 1 ELSE 0)
        movement_factor == IF "ArrowUp" \in input THEN 1 ELSE 0
        rotation ==
            rotate_z(ship.rotation,
                     AngleDelta(rotation_factor * ship.rotation_speed, dt))
        movement_direction == Forward(rotation)
        translation_delta ==
            TranslationDelta(movement_direction,
                             movement_factor * ship.movement_speed, dt)
        moved == VecAdd(ship.translation, translation_delta)
    IN  [es EXCEPT ![p] = [@ EXCEPT !.rotation = rotation,
                                    !.translation = ClampToBounds(moved, FALSE)]]

\* enemy_movement_system, the loop body for one entity
EnemyMoveOne(e, dt) ==
    LET movement_direction == Forward(e.rotation)
        translation_delta ==
            TranslationDelta(movement_direction, e.movement_speed, dt)
        moved == VecAdd(e.translation, translation_delta)
    IN  [e EXCEPT !.translation = ClampToBounds(moved, e.rotation.nan)]

\* enemy_movement_system
EnemyMovement(es, dt) ==
    [i \in DOMAIN es |->
        IF Matches(es[i], {"EnemyMove", "Transform"}, {})
        THEN EnemyMoveOne(es[i], dt) ELSE es[i]]

\* (player_translation - enemy_transform.translation.xy()).normalize()
ToPlayer(player_translation, enemy_translation) ==
    Normalize(player_translation.x - enemy_translation.x,
              player_translation.y - enemy_translation.y)

\* snap_to_player_system, the loop body: Quat::from_rotation_arc(Vec3::Y, d)
\* is the rotation about Z that turns Y onto d (NaN when d is NaN)
SnapOne(e, player_translation) ==
    LET to_player == ToPlayer(player_translation, e.translation)
        rotate_to_player == to_player
    IN  [e EXCEPT !.rotation = rotate_to_player]

\* snap_to_player_system, the body after player_query.single()
SnapToPlayer(es) ==
    LET player_translation == es[Single(PlayerQuery(es))].translation
    IN  [i \in DOMAIN es |->
            IF Matches(es[i], {"SnapToPlayer", "Transform"}, {"Player"})
            THEN SnapOne(es[i], player_translation) ELSE es[i]]

\* mutant of RotationAngle: the turn is not limited to max_angle
RotationAngle_unlimited(config_rotation_speed, rotation, to_player, dt, nan_sign) ==
    IF to_player.nan THEN (-nan_sign) * AngleDelta(config_rotation_speed, dt)
    ELSE IF Abs(Cos(to_player.angle - rotation.angle) - TrigScale) < 1 THEN 0
    ELSE (-CopySign1(Cos(to_player.angle - rotation.angle + QuarterTurn)))
           * AngleDelta(config_rotation_speed, dt)

\* rotate_to_player_system: the signed angle applied to one entity.
\* With a NaN to_player both dot products are NaN: the early-out test is
\* false, copysign takes the NaN's sign bit (nan_sign, either value),
\* and f32::min(speed * dt, NaN) is speed * dt.
RotationAngle(config_rotation_speed, rotation, to_player, dt, nan_sign) ==
    LET enemy_forward == Forward(rotation)
        forward_dot_player == Dot(enemy_forward, to_player)
        enemy_right == Right(rotation)
        right_dot_player == Dot(enemy_right, to_player)
        rotation_sign == -CopySign1(right_dot_player)
        max_angle == ACos(ClampTo(forward_dot_player, -TrigScale, TrigScale))
        turn == AngleDelta(config_rotation_speed, dt)
    IN  IF to_player.nan THEN (-nan_sign) * turn
        ELSE IF Abs(forward_dot_player - TrigScale) < 1 THEN 0
        ELSE rotation_sign * Min(turn, max_angle)

\* rotate_to_player_system, the loop body
RotateOne(e, player_translation, dt, nan_sign) ==
    LET to_player == ToPlayer(player_translation, e.translation)
    IN  [e EXCEPT !.rotation =
            rotate_z(@, RotationAngle(e.rotation_speed, e.rotation,
                                      to_player, dt, nan_sign))]

\* rotate_to_player_system, the body after player_query.single()
RotateToPlayer(es, dt, nan_sign) ==
    LET player_translation == es[Single(PlayerQuery(es))].translation
    IN  [i \in DOMAIN es |->
            IF Matches(es[i], {"RotateToPlayer", "Transform"}, {"Player"})
            THEN RotateOne(es[i], player_translation, dt, nan_sign)
            ELSE es[i]]

\* mutant of Collides: <= in place of <
Collides_inclusive(player_translation, enemy_translation) ==
    DistanceLess(player_translation, enemy_translation,
                 Px(collision_distance))
      \/ (player_translation.x - enemy_translation.x)
            * (player_translation.x - enemy_translation.x)
          + (player_translation.y - enemy_translation.y)
            * (player_translation.y - enemy_translation.y)
          + (player_translation.z - enemy_translation.z)
            * (player_translation.z - enemy_translation.z)
          = Px(collision_distance) * Px(collision_distance)

\* collision_system: whether one enemy is in collision range
Collides(player_translation, enemy_translation) ==
    DistanceLess(player_translation, enemy_translation,
                 Px(collision_distance))

\* mutant of Defeated: < in place of <=
Defeated_strict(health_value) == health_value < 0

\* collision_system: the test after a hit that ends the process
Defeated(health_value) == health_value <= 0

\* mutant of CollisionLoop: the defeat check runs after the loop, so the
\* pass goes on after the hit that brings the health to 0
RECURSIVE CollisionLoop_whole_pass(_, _, _, _)
CollisionLoop_whole_pass(es, player_translation, i, r) ==
    IF i > Len(es) THEN r
    ELSE IF Matches(es[i], {"Enemy", "Transform"}, {})
            /\ Collides(player_translation, es[i].translation)
    THEN LET value == r.health - Damage
         IN  CollisionLoop_whole_pass(es, player_translation, i + 1,
                 [health |-> value, hits |-> r.hits + 1,
                  exit |-> Defeated(value)])
    ELSE CollisionLoop_whole_pass(es, player_translation, i + 1, r)

\* collision_system, the loop over enemy_query from entity i on:
\* r = [health, hits, exit] so far
RECURSIVE CollisionLoop(_, _, _, _)
CollisionLoop(es, player_translation, i, r) ==
    IF i > Len(es) \/ r.exit THEN r
    ELSE IF Matches(es[i], {"Enemy", "Transform"}, {})
            /\ Collides(player_translation, es[i].translation)
    THEN LET value == r.health - Damage
         IN  CollisionLoop(es, player_translation, i + 1,
                 [health |-> value, hits |-> r.hits + 1,
                  exit |-> Defeated(value)])
    ELSE CollisionLoop(es, player_translation, i + 1, r)

\* collision_system, the body after player_query.single_mut()
Collision(es) ==
    LET p == Single(Query(es, {"Player", "Health", "Transform"}, {}))
    IN  CollisionLoop(es, es[p].translation, 1,
                      [health |-> es[p].health, hits |-> 0, exit |-> FALSE])

----------------------------------------------------------------------------
(* mymain.rs: the spawner.                                                 *)

\* random::<f32>() is uniform in [0, 1): modelled as k / RandomSteps for a
\* sample k of 0 .. RandomSteps-1
RandomSteps == 4 * FixedHz
RandomSamples == {24, 237}
\* the samples drawn for the two speeds
SpeedSamples == {237}

\* random::<f32>() * scale + offset, rounded
Scaled(k, scale, offset) == RoundDiv(k * scale, RandomSteps) + offset

\* mutant of SpawnedEnemy: the spawned entity is a second player
SpawnedEnemy_player(rx, ry, rs, rr) ==
    Entity(Bundle \cup {"Player", "Health", "Enemy", "EnemyMove"},
           Vec3(0, 0, 0), Scaled(rs, 250, 50), Scaled(rr, 300, 60),
           InitialHealth)

\* spawn_enemy_system: the entity spawned from four random samples
SpawnedEnemy(rx, ry, rs, rr) ==
    LET spawn_position ==
            Vec3(Scaled(rx, Px(BOUNDS_x), 0 - Px(BOUNDS_x) \div 2),
                 Scaled(ry, Px(BOUNDS_y), 0 - Px(BOUNDS_y) \div 2),
                 0)
    IN  Entity(Bundle \cup {"Enemy", "EnemyMove", "RotateToPlayer"},
               spawn_position, Scaled(rs, 250, 50), Scaled(rr, 300, 60), 0)

\* Timer::from_seconds(2.0, TimerMode::Repeating), in timesteps
GreetDuration == GreetSeconds * FixedHz

\* Timer::tick of a repeating timer: [elapsed, just_finished]
TickRepeating(elapsed, duration, dt) ==
    [elapsed |-> (elapsed + dt) % duration,
     just_finished |-> elapsed + dt >= duration]

----------------------------------------------------------------------------
(* mymain.rs: the schedules.                                               *)

\* the tuple of systems main adds to FixedUpdate
FixedSystems ==
    << "player_movement_system", "enemy_movement_system",
       "snap_to_player_system", "rotate_to_player_system",
       "collision_system" >>

SwapAt(s, i) == [s EXCEPT ![i] = s[i + 1], ![i + 1] = s[i]]

\* The tuple is added without .chain() and no system states before/after:
\* the schedule may execute the systems in any order.  The order is
\* computed when the schedule is first built and kept for every run.
ScheduleOrders ==
    LET n == Len(FixedSystems)
        perms == {f \in [1 .. n -> 1 .. n] :
                     \A i, j \in 1 .. n : i # j => f[i] # f[j]}
    IN  {[i \in 1 .. n |-> FixedSystems[f[i]]] : f \in perms}

\* the orders explored in long behaviours: the tuple's order and the
\* orders one adjacent transposition away from it
NearOrders ==
    {FixedSystems} \cup {SwapAt(FixedSystems, i) : i \in 1 .. Len(FixedSystems) - 1}

\* Time<Virtual>::delta() of a frame, in timesteps: none (the first frame)
\* or the 250 ms a slow frame is capped to
FrameDeltas == {0, FixedHz \div 4}

\* the state after the system at order[pc] has run: the next system of the
\* tick, the next tick while overstep is left, or the Update schedule
Advance(name) ==
    /\ ran' = IF pc = 1 THEN <<name>> ELSE Append(ran, name)
    /\ IF status' # "running"
       THEN UNCHANGED <<phase, pc, acc, ticks>>
       ELSE IF pc < Len(order)
       THEN pc' = pc + 1 /\ UNCHANGED <<phase, acc, ticks>>
       ELSE IF acc >= FixedDelta
       THEN /\ pc' = 1
            /\ acc' = acc - FixedDelta
            /\ ticks' = ticks + 1
            /\ UNCHANGED phase
       ELSE /\ phase' = "Update"
            /\ pc' = 0
            /\ UNCHANGED <<acc, ticks>>

\* the system named name is the next to run
Scheduled(name) ==
    /\ status = "running"
    /\ phase = "FixedUpdate"
    /\ order[pc] = name

\* App::run, the start of a frame: input and time are updated, and the
\* fixed main loop starts a FixedUpdate run for every timestep accumulated
\* the keys pressed or released between two pressed sets
KeyEventsBetween(a, b) == Cardinality((a \ b) \cup (b \ a))

BeginFrameUpTo(max_ticks) ==
    /\ status = "running"
    /\ phase = "First"
    /\ \E dt \in FrameDeltas, input \in SUBSET Keys :
          /\ ticks + dt <= max_ticks
          /\ keyEvents + KeyEventsBetween(keys, input) <= MaxKeyEvents
          /\ keys' = input
          /\ keyEvents' = keyEvents + KeyEventsBetween(keys, input)
          /\ delta' = dt
          /\ IF acc + dt >= FixedDelta
             THEN /\ phase' = "FixedUpdate"
                  /\ pc' = 1
                  /\ acc' = acc + dt - FixedDelta
                  /\ ticks' = ticks + 1
             ELSE /\ phase' = "Update"
                  /\ pc' = 0
                  /\ acc' = acc + dt
                  /\ UNCHANGED ticks
    /\ UNCHANGED <<ents, status, greet, spawned, order, ran, hits>>
    /\ UNCHANGED moveVars

\* a single() / single_mut() that does not find exactly one entity panics
Panic ==
    /\ status' = "panic"
    /\ UNCHANGED <<ents, hits>>

BeginFrame == BeginFrameUpTo(MaxTicks)

BeginFrameAnyOrder == BeginFrameUpTo(MaxOrderTicks)

player_movement_system ==
    /\ Scheduled("player_movement_system")
    /\ IF Cardinality(PlayerQuery(ents)) # 1 THEN Panic
       ELSE /\ ents' = PlayerMovement(ents, keys, FixedDelta)
            /\ UNCHANGED <<status, hits>>
    /\ Advance("player_movement_system")
    /\ UNCHANGED <<keys, keyEvents, delta, greet, spawned, order>>
    /\ UNCHANGED moveVars

enemy_movement_system ==
    /\ Scheduled("enemy_movement_system")
    /\ ents' = EnemyMovement(ents, FixedDelta)
    /\ UNCHANGED <<status, hits>>
    /\ Advance("enemy_movement_system")
    /\ UNCHANGED <<keys, keyEvents, delta, greet, spawned, order>>
    /\ UNCHANGED moveVars

snap_to_player_system ==
    /\ Scheduled("snap_to_player_system")
    /\ IF Cardinality(PlayerQuery(ents)) # 1 THEN Panic
       ELSE /\ ents' = SnapToPlayer(ents)
            /\ UNCHANGED <<status, hits>>
    /\ Advance("snap_to_player_system")
    /\ UNCHANGED <<keys, keyEvents, delta, greet, spawned, order>>
    /\ UNCHANGED moveVars

rotate_to_player_system ==
    /\ Scheduled("rotate_to_player_system")
    /\ IF Cardinality(PlayerQuery(ents)) # 1 THEN Panic
       ELSE /\ \E nan_sign \in {-1, 1} :
                  ents' = RotateToPlayer(ents, FixedDelta, nan_sign)
            /\ UNCHANGED <<status, hits>>
    /\ Advance("rotate_to_player_system")
    /\ UNCHANGED <<keys, keyEvents, delta, greet, spawned, order>>
    /\ UNCHANGED moveVars

collision_system ==
    /\ Scheduled("collision_system")
    /\ IF Cardinality(Query(ents, {"Player", "Health", "Transform"}, {})) # 1
       THEN Panic
       ELSE LET r == Collision(ents)
                p == Single(PlayerQuery(ents))
            IN  /\ ents' = [ents EXCEPT ![p].health = r.health]
                /\ hits' = hits + r.hits
                /\ status' = IF r.exit THEN "exit0" ELSE status
    /\ Advance("collision_system")
    /\ UNCHANGED <<keys, keyEvents, delta, greet, spawned, order>>
    /\ UNCHANGED moveVars

\* spawn_enemy_system, the only system of Update; the spawn command is
\* applied when the schedule ends
spawn_enemy_system ==
    /\ status = "running"
    /\ phase = "Update"
    /\ LET t == TickRepeating(greet, GreetDuration, delta)
       IN  /\ greet' = t.elapsed
           /\ IF t.just_finished
              THEN /\ spawned < MaxSpawned
                   /\ \E rx, ry \in RandomSamples, rs, rr \in SpeedSamples :
                         ents' = Append(ents, SpawnedEnemy(rx, ry, rs, rr))
                   /\ spawned' = spawned + 1
              ELSE UNCHANGED <<ents, spawned>>
    /\ phase' = "First"
    /\ UNCHANGED <<status, keys, keyEvents, delta, acc, ticks, pc, order,
                   ran, hits>>
    /\ UNCHANGED moveVars

\* movement.rs is not part of this program: its state is left alone
NoMover == [none |-> TRUE]

Init ==
    /\ ents = setup
    /\ status = "running"
    /\ keys = {}
    /\ keyEvents = 0
    /\ delta = 0
    /\ acc = 0
    /\ greet = 0
    /\ spawned = 0
    /\ ticks = 0
    /\ phase = "First"
    /\ pc = 0
    /\ order \in NearOrders
    /\ ran = << >>
    /\ hits = 0
    /\ mover = NoMover
    /\ window = NoMover
    /\ cues = 0
    /\ sinceCue = 0

Next ==
    \/ BeginFrame
    \/ player_movement_system
    \/ enemy_movement_system
    \/ snap_to_player_system
    \/ rotate_to_player_system
    \/ collision_system
    \/ spawn_enemy_system

Spec == Init /\ [][Next]_vars

\* the same program with the schedule in any order, over short behaviours
InitAnyOrder ==
    /\ ents = setup
    /\ status = "running"
    /\ keys = {}
    /\ keyEvents = 0
    /\ delta = 0
    /\ acc = 0
    /\ greet = 0
    /\ spawned = 0
    /\ ticks = 0
    /\ phase = "First"
    /\ pc = 0
    /\ order \in ScheduleOrders
    /\ ran = << >>
    /\ hits = 0
    /\ mover = NoMover
    /\ window = NoMover
    /\ cues = 0
    /\ sinceCue = 0

NextAnyOrder ==
    \/ BeginFrameAnyOrder
    \/ player_movement_system
    \/ enemy_movement_system
    \/ snap_to_player_system
    \/ rotate_to_player_system
    \/ collision_system
    \/ spawn_enemy_system

SpecAnyOrder == InitAnyOrder /\ [][NextAnyOrder]_vars

----------------------------------------------------------------------------
(* Claims about the game (mymain.rs).                                      *)

ThePlayer == ents[Single(PlayerQuery(ents))]
PlayerHealth == ThePlayer.health
HitsToDefeat == InitialHealth \div Damage
LastRan == IF ran = << >> THEN "none" ELSE ran[Len(ran)]

\* the enemy ships: every entity that moves as an enemy
Ships(es) == Query(es, {"EnemyMove", "Transform"}, {})
\* the entity is strictly less than 30 pixels from the player
Within30(es, i) ==
    LET a == es[Single(PlayerQuery(es))].translation
        b == es[i].translation
    IN  (a.x - b.x) * (a.x - b.x) + (a.y - b.y) * (a.y - b.y)
          + (a.z - b.z) * (a.z - b.z) < Px(30) * Px(30)

\* exactly 30 pixels from the player
Exactly30(es, i) ==
    LET a == es[Single(PlayerQuery(es))].translation
        b == es[i].translation
    IN  (a.x - b.x) * (a.x - b.x) + (a.y - b.y) * (a.y - b.y)
          + (a.z - b.z) * (a.z - b.z) = Px(30) * Px(30)

ShipsInRange(es) == {i \in Ships(es) : Within30(es, i)}
TaggedInRange(es) ==
    {i \in Query(es, {"Enemy"}, {}) : Within30(es, i)}

\* C2: every hit takes 10 from the initial 100; the process is running
\* while fewer than ten hits were applied; the tenth hit leaves health 0
\* and ends the process in collision_system, after which no system runs
\* and nothing changes.
C2_TerminatesAtTenthHit ==
    /\ PlayerHealth = InitialHealth - Damage * hits
    /\ hits < HitsToDefeat => status = "running"
    /\ hits >= HitsToDefeat =>
          /\ hits = HitsToDefeat
          /\ PlayerHealth = 0
          /\ status = "exit0"
    /\ status = "exit0" =>
          /\ LastRan = "collision_system"
          /\ ~ENABLED Next

C2_Witness == status = "exit0" /\ hits = HitsToDefeat

\* the systems the claim lists, with their place in the claimed order
ClaimedRank(name) ==
    CASE name = "player_movement_system" -> 1
      [] name = "enemy_movement_system" -> 1
      [] name = "snap_to_player_system" -> 2
      [] name = "rotate_to_player_system" -> 2
      [] name = "collision_system" -> 3

PerTickSystems ==
    {"player_movement_system", "enemy_movement_system",
     "snap_to_player_system", "rotate_to_player_system", "collision_system"}

\* a FixedUpdate run has completed and ran holds its systems
TickComplete ==
    /\ status = "running"
    /\ \/ phase # "FixedUpdate" /\ ticks > 0
       \/ phase = "FixedUpdate" /\ pc = 1 /\ ticks > 1

\* C3: within a tick the systems run in the listed order, movement
\* before steering before collision.
C3_ListedOrder ==
    \A i, j \in 1 .. Len(ran) :
        i < j => ClaimedRank(ran[i]) <= ClaimedRank(ran[j])

\* the part of C3 the schedule does guarantee: within a tick no system
\* runs twice, and a completed tick has run each of the five systems
OncePerTick ==
    /\ \A i, j \in 1 .. Len(ran) : i # j => ran[i] # ran[j]
    /\ \A i \in 1 .. Len(ran) : ran[i] \in PerTickSystems
    /\ TickComplete => {ran[i] : i \in 1 .. Len(ran)} = PerTickSystems

\* C7: the player and every EnemyMove entity stay inside the playfield,
\* |x| <= 600 and |y| <= 320 pixels.
C7_InsidePlayfield ==
    \A i \in DOMAIN ents :
        (Matches(ents[i], {"Player"}, {}) \/ Matches(ents[i], {"EnemyMove"}, {}))
        => /\ Abs(ents[i].translation.x) <= Px(BOUNDS_x) \div 2
           /\ Abs(ents[i].translation.y) <= Px(BOUNDS_y) \div 2

\* the player was pushed against the top edge and stopped there, and a
\* spawned enemy has been through the systems
C7_Witness ==
    /\ ThePlayer.translation.y = Px(BOUNDS_y) \div 2
    /\ spawned > 0
    /\ ticks > GreetDuration

\* C8: exactly one Player entity exists, it carries Health, and no
\* single-match query has failed.
C8_OnePlayer ==
    /\ Cardinality(Query(ents, {"Player"}, {})) = 1
    /\ Cardinality(Query(ents, {"Player", "Health", "Transform"}, {})) = 1
    /\ status # "panic"

C8_Witness ==
    /\ spawned > 0
    /\ ticks > GreetDuration
    /\ phase = "FixedUpdate"
    /\ status = "running"

\* C10: in a collision pass that does not end the process,
\* every enemy ship within collision range takes 10 from the health.
C10_EveryShipDamages ==
    [][Scheduled("collision_system") /\ status' = "running"
         => PlayerHealth' =
              PlayerHealth - Damage * Cardinality(ShipsInRange(ents))]_vars

----------------------------------------------------------------------------
(* collision_system as a function of the world: one pass from a world      *)
(* whose ships and spawned enemy stand anywhere around the player.         *)

\* where the player stands, and where a ship stands relative to it (pixels)
PlayerSpots == {Vec3(0, 0, 0), Vec3(Px(BOUNDS_x) \div 2, Px(BOUNDS_y) \div 2, 0)}
ShipOffsets ==
    {Vec3(Px(-29), 0, 0), Vec3(Px(-18), Px(-24), 0), Vec3(Px(-30), 0, 0),
     Vec3(Px(-17), Px(-24), 0), Vec3(Px(-300), Px(-160), 0)}
HealthValues == {InitialHealth, 2 * Damage, Damage}

\* the world of setup and one spawn, the player at spot and ship k of the
\* five at spot + offs[k]
Placed(spot, offs, health_value) ==
    LET es == Append(setup, SpawnedEnemy(0, 0, 0, 0))
        first == Len(es) - Len(offs)
    IN  [i \in DOMAIN es |->
            IF Matches(es[i], {"Player"}, {})
            THEN [es[i] EXCEPT !.translation = spot, !.health = health_value]
            ELSE IF i > first
            THEN [es[i] EXCEPT !.translation = VecAdd(spot, offs[i - first])]
            ELSE es[i]]

InitCollision ==
    /\ \E spot \in PlayerSpots, h \in HealthValues,
          offs \in [1 .. 5 -> ShipOffsets] :
          /\ ents = Placed(spot, offs, h)
          /\ hits = (InitialHealth - h) \div Damage
    /\ status = "running"
    /\ keys = {}
    /\ keyEvents = 0
    /\ delta = FixedDelta
    /\ acc = 0
    /\ greet = 0
    /\ spawned = 1
    /\ ticks = 1
    /\ phase = "FixedUpdate"
    /\ pc = Len(FixedSystems)
    /\ order = FixedSystems
    /\ ran = SubSeq(FixedSystems, 1, Len(FixedSystems) - 1)
    /\ mover = NoMover
    /\ window = NoMover
    /\ cues = 0
    /\ sinceCue = 0

NextCollision == collision_system

SpecCollision == InitCollision /\ [][NextCollision]_vars

\* C1: a pass of collision_system that does not end the process takes
\* exactly 10 from the health for every Enemy-tagged entity strictly less
\* than 30 pixels from the player: once each, stacking, none at 30 or more.
C1_DamagePerEnemyInRange ==
    [][Scheduled("collision_system") /\ status' = "running"
         => /\ PlayerHealth' =
                 PlayerHealth - Damage * Cardinality(TaggedInRange(ents))
            /\ hits' = hits + Cardinality(TaggedInRange(ents))]_vars

\* after a pass from full health: two tagged enemies in range took 20,
\* while a tagged enemy at exactly 30 pixels and the untagged ship in
\* range took nothing
C1_Witness ==
    /\ LastRan = "collision_system"
    /\ status = "running"
    /\ PlayerHealth = InitialHealth - 2 * Damage
    /\ Cardinality(TaggedInRange(ents)) = 2
    /\ \E i \in Query(ents, {"Enemy"}, {}) : Exactly30(ents, i)
    /\ \E i \in ShipsInRange(ents) : ~Matches(ents[i], {"Enemy"}, {})

----------------------------------------------------------------------------
(* rotate_to_player_system as a function of the world: one pass from a     *)
(* world whose rotating enemies face any direction.                        *)

Directions == 0 .. AngleUnits - 1
RotatePlayerSpots ==
    {Vec3(0, 0, 0), Vec3(Px(100), Px(-320), 0), Vec3(Px(-557), Px(231), 0)}

\* the world of setup and one spawn, the player at spot and the rotating
\* enemies facing a, a + 180 degrees and -a
Facing(spot, a) ==
    LET es == Append(setup, SpawnedEnemy(24, 24, 24, 237))
        n == Len(es)
    IN  [i \in DOMAIN es |->
            IF Matches(es[i], {"Player"}, {})
            THEN [es[i] EXCEPT !.translation = spot]
            ELSE IF i = n THEN [es[i] EXCEPT !.rotation = Rot(-a)]
            ELSE IF i = n - 1 THEN [es[i] EXCEPT !.rotation = Rot(a + HalfTurn)]
            ELSE IF i = n - 2 THEN [es[i] EXCEPT !.rotation = Rot(a)]
            ELSE es[i]]

InitRotate ==
    /\ \E spot \in RotatePlayerSpots, a \in Directions :
          ents = Facing(spot, a)
    /\ status = "running"
    /\ keys = {}
    /\ keyEvents = 0
    /\ delta = FixedDelta
    /\ acc = 0
    /\ greet = 0
    /\ spawned = 1
    /\ ticks = 1
    /\ phase = "FixedUpdate"
    /\ pc = 4
    /\ order = FixedSystems
    /\ ran = SubSeq(FixedSystems, 1, 3)
    /\ hits = 0
    /\ mover = NoMover
    /\ window = NoMover
    /\ cues = 0
    /\ sinceCue = 0

NextRotate == rotate_to_player_system

SpecRotate == InitRotate /\ [][NextRotate]_vars

\* the signed angle from the entity's forward vector to the player
RelativeAngle(es, i) ==
    LET p == es[Single(PlayerQuery(es))].translation
        e == es[i]
    IN  Signed(PolarAngle(p.x - e.translation.x, p.y - e.translation.y)
                 - QuarterTurn - e.rotation.angle)

Rotating(es) == Query(es, {"RotateToPlayer", "Transform"}, {"Player"})

\* C4: one call of rotate_to_player_system turns every RotateToPlayer
\* entity toward the player by min(rotation_speed * dt, relative angle):
\* the relative angle shrinks by exactly that much, never past 0, and an
\* entity already facing the player keeps its orientation.
C4_TurnLimited ==
    [][Scheduled("rotate_to_player_system") =>
         \A i \in Rotating(ents) :
            LET before == Abs(RelativeAngle(ents, i))
                turn == Min(AngleDelta(ents[i].rotation_speed, FixedDelta),
                            before)
            IN  /\ Abs(RelativeAngle(ents', i)) = before - turn
                /\ Abs(Signed(ents'[i].rotation.angle
                                - ents[i].rotation.angle)) = turn
                /\ before = 0 => ents'[i].rotation = ents[i].rotation]_vars

\* after a pass: one rotating enemy faces the player exactly, another is
\* still turning, a third is more than a right angle away
C4_Witness ==
    /\ LastRan = "rotate_to_player_system"
    /\ \E i, j, k \in Rotating(ents) :
          /\ RelativeAngle(ents, i) = 0
          /\ Abs(RelativeAngle(ents, j)) \in 1 .. QuarterTurn
          /\ Abs(RelativeAngle(ents, k)) > QuarterTurn

----------------------------------------------------------------------------
(* game/movement.rs: the components and the systems of the plugin.  They   *)
(* run in the Update schedule with the frame's delta; the entity they act  *)
(* on is mover, which carries MovementController, Movement, Transform,     *)
(* WrapWithinWindow and StepSfx.                                           *)

\* Timer::new(cooldown, TimerMode::Once) followed by set_elapsed(cooldown):
\* the elapsed time is set, the finished flag is not
StepSfx_new(cooldown) ==
    [elapsed |-> cooldown, duration |-> cooldown, finished |-> FALSE]

\* Timer::tick of a non-repeating timer
TickOnce(timer, dt) ==
    IF timer.finished THEN timer
    ELSE IF timer.elapsed + dt >= timer.duration
    THEN [timer EXCEPT !.elapsed = timer.duration, !.finished = TRUE]
    ELSE [timer EXCEPT !.elapsed = timer.elapsed + dt]

\* Timer::reset
Reset(timer) == [timer EXCEPT !.elapsed = 0, !.finished = FALSE]

\* the entity: MovementController::default(), Movement, Transform, StepSfx
Mover(translation, rotation, movement_speed, rotation_speed, cooldown) ==
    [translation |-> translation,
     rotation |-> rotation,
     movement_intent |-> 0,
     rotation_intent |-> 0,
     movement_speed |-> movement_speed,
     rotation_speed |-> rotation_speed,
     cooldown_timer |-> StepSfx_new(cooldown)]

MoveKeys == {"KeyW", "ArrowUp", "KeyA", "ArrowLeft", "KeyD", "ArrowRight"}

\* record_movement_controller: the intents collected from the input
MovementIntent(input) ==
    IF "KeyW" \in input \/ "ArrowUp" \in input THEN 1 ELSE 0
RotationIntent(input) ==
    (IF "KeyA" \in input \/ "ArrowLeft" \in input THEN 1 ELSE 0)
      - (IF "KeyD" \in input \/ "ArrowRight" \in input THEN 1 ELSE 0)

RecordMovementController(m, input) ==
    [m EXCEPT !.movement_intent = MovementIntent(input),
              !.rotation_intent = RotationIntent(input)]

\* mutant of ApplyMovement: the movement direction is taken before the
\* rotation is applied
ApplyMovement_stale(m, dt) ==
    [m EXCEPT
       !.rotation = rotate_z(m.rotation,
                             m.rotation_intent * m.rotation_speed * dt),
       !.translation =
           VecAdd(m.translation,
                  TranslationDelta(Forward(m.rotation),
                                   m.movement_intent * m.movement_speed,
                                   dt))]

\* apply_movement, for one entity; rotation_speed is in angle units per
\* timestep
ApplyMovement(m, dt) ==
    LET rotation ==
            rotate_z(m.rotation, m.rotation_intent * m.rotation_speed * dt)
        movement_direction == Forward(rotation)
        translation_delta ==
            TranslationDelta(movement_direction,
                             m.movement_intent * m.movement_speed, dt)
    IN  [m EXCEPT !.rotation = rotation,
                  !.translation = VecAdd(m.translation, translation_delta)]

\* f32 in wrap_within_window: a value is an integer count of 1 / SubPixel
\* pixels, rounded to MantissaBits significant bits, ties to even
MantissaBits == 24
SubPixel == 2 ^ 15
F32(p) == p * SubPixel

RECURSIVE Ulp(_)
Ulp(m) == IF m < 2 ^ MantissaBits THEN 1 ELSE 2 * Ulp(m \div 2)

RoundF32(n) ==
    LET m == Abs(n)
        u == Ulp(m)
        q == m \div u
        r == m % u
        v == IF 2 * r > u \/ (2 * r = u /\ q % 2 = 1)
             THEN (q + 1) * u ELSE q * u
    IN  IF n < 0 THEN -v ELSE v

\* the % of f32: the remainder has the sign of the dividend and is exact
Fmod(a, b) == IF a < 0 THEN -((-a) % b) ELSE a % b

\* f32::rem_euclid
rem_euclid(a, b) ==
    LET r == Fmod(a, b)
    IN  IF r < 0 THEN RoundF32(r + Abs(b)) ELSE r

\* wrap_within_window on one axis; window_size in pixels
WrapAxis(position, window_size) ==
    LET size == RoundF32(F32(window_size) + F32(50))
        half_size == size \div 2
    IN  RoundF32(rem_euclid(RoundF32(position + half_size), size)
                   - half_size)

WrapWithinWindow(m, w) ==
    [m EXCEPT !.translation =
        Vec3(WrapAxis(m.translation.x, w.width),
             WrapAxis(m.translation.y, w.height),
             m.translation.z)]

\* mutant of TriggerStepSfx: the timer is not reset
TriggerStepSfx_no_reset(m) ==
    IF m.cooldown_timer.finished /\ m.movement_intent # 0
    THEN [mover |-> m, cue |-> 1]
    ELSE [mover |-> m, cue |-> 0]

\* trigger_step_sfx, for one entity: the entity and the cues triggered
TriggerStepSfx(m) ==
    IF m.cooldown_timer.finished /\ m.movement_intent # 0
    THEN [mover |-> [m EXCEPT !.cooldown_timer = Reset(m.cooldown_timer)],
          cue |-> 1]
    ELSE [mover |-> m, cue |-> 0]

HasRun(name) == \E i \in DOMAIN ran : ran[i] = name

\* the system named name, one of the systems in order, has not yet run in
\* this frame; with it the frame is complete when all have run
UpdateSystem(name) ==
    /\ status = "running"
    /\ phase = "Update"
    /\ \E i \in DOMAIN order : order[i] = name
    /\ ~HasRun(name)
    /\ ran' = Append(ran, name)
    /\ phase' = IF Len(ran) + 1 = Len(order) THEN "First" ELSE "Update"
    /\ UNCHANGED <<ents, status, keys, keyEvents, delta, acc, greet,
                   spawned, ticks, pc, order, hits, window>>

\* the start of a frame: input and time are updated
BeginUpdateFrame(inputs, deltas, max_frames) ==
    /\ status = "running"
    /\ phase = "First"
    /\ ticks < max_frames
    /\ \E dt \in deltas, input \in inputs :
          /\ keys' = input
          /\ delta' = dt
    /\ ticks' = ticks + 1
    /\ phase' = "Update"
    /\ ran' = << >>
    /\ UNCHANGED <<ents, status, keyEvents, acc, greet, spawned, pc, order,
                   hits>>
    /\ UNCHANGED moveVars

record_movement_controller ==
    /\ UpdateSystem("record_movement_controller")
    /\ mover' = RecordMovementController(mover, keys)
    /\ UNCHANGED <<cues, sinceCue>>

apply_movement ==
    /\ UpdateSystem("apply_movement")
    /\ mover' = ApplyMovement(mover, delta)
    /\ UNCHANGED <<cues, sinceCue>>

\* chained after apply_movement where that system is present
wrap_within_window ==
    /\ UpdateSystem("wrap_within_window")
    /\ (\E i \in DOMAIN order : order[i] = "apply_movement")
          => HasRun("apply_movement")
    /\ mover' = WrapWithinWindow(mover, window)
    /\ UNCHANGED <<cues, sinceCue>>

\* sinceCue: the time ticked since the last cue
tick_step_sfx ==
    /\ UpdateSystem("tick_step_sfx")
    /\ mover' = [mover EXCEPT
                   !.cooldown_timer = TickOnce(mover.cooldown_timer, delta)]
    /\ sinceCue' = sinceCue + delta
    /\ UNCHANGED cues

trigger_step_sfx ==
    /\ UpdateSystem("trigger_step_sfx")
    /\ LET t == TriggerStepSfx(mover)
       IN  /\ mover' = t.mover
           /\ cues' = cues + t.cue
           /\ sinceCue' = IF t.cue > 0 THEN 0 ELSE sinceCue

\* the state before the first frame, with the systems of one program
InitUpdate(systems, frames) ==
    /\ ents = << >>
    /\ status = "running"
    /\ keys = {}
    /\ keyEvents = 0
    /\ delta = 0
    /\ acc = 0
    /\ greet = 0
    /\ spawned = 0
    /\ ticks = frames
    /\ pc = 0
    /\ order = systems
    /\ hits = 0
    /\ cues = 0
    /\ sinceCue = 0

----------------------------------------------------------------------------
(* record_movement_controller and apply_movement, frame after frame.       *)

MaxMoveFrames == 2
MoveInputs ==
    {{}, {"KeyW"}, {"ArrowUp", "KeyA"}, {"ArrowLeft"},
     {"KeyW", "KeyD", "ArrowRight"}, {"KeyA", "KeyD"}}
MoveDeltas == {0, FixedDelta, FixedHz \div 4}
MoveSpeeds == {<<300, 3>>, <<420, 7>>}
MoveStarts == {<<Vec3(0, 0, 0), 0>>, <<Vec3(Px(-40), Px(25), 0), 100>>}

InitApply ==
    /\ InitUpdate(<<"record_movement_controller", "apply_movement">>, 0)
    /\ phase = "First"
    /\ ran = << >>
    /\ \E sp \in MoveSpeeds, st \in MoveStarts :
          mover = Mover(st[1], Rot(st[2]), sp[1], sp[2], FixedHz \div 4)
    /\ window = NoMover

BeginMoveFrame == BeginUpdateFrame(MoveInputs, MoveDeltas, MaxMoveFrames)

NextApply ==
    \/ BeginMoveFrame
    \/ record_movement_controller
    \/ apply_movement

SpecApply == InitApply /\ [][NextApply]_vars

\* C9: apply_movement turns the entity by rotation_intent * rotation_speed
\* * dt and moves it by the new forward vector * movement_intent *
\* movement_speed * dt; dt = 0 or both intents 0 leave position and
\* orientation unchanged, and a zero movement intent leaves the position
\* unchanged whatever the rotation.
C9_ApplyMovement ==
    [][UpdateSystem("apply_movement") =>
         LET turned == mover.rotation.angle
                         + mover.rotation_intent * mover.rotation_speed
                             * delta
             distance == mover.movement_intent * mover.movement_speed * delta
         IN  /\ mover'.rotation.angle = Reduce(turned)
             /\ mover'.translation.x - mover.translation.x =
                  RoundDiv(distance * PosScale * (-Sin(turned)),
                           FixedHz * TrigScale)
             /\ mover'.translation.y - mover.translation.y =
                  RoundDiv(distance * PosScale * Cos(turned),
                           FixedHz * TrigScale)
             /\ mover'.translation.z = mover.translation.z
             /\ (delta = 0
                   \/ (mover.movement_intent = 0
                         /\ mover.rotation_intent = 0))
                  => /\ mover'.translation = mover.translation
                     /\ mover'.rotation = mover.rotation
             /\ mover.movement_intent = 0
                  => mover'.translation = mover.translation]_vars

\* apply_movement has just turned and moved the entity in one call,
\* along a direction off both axes
C9_Witness ==
    /\ LastRan = "apply_movement"
    /\ ticks = 1
    /\ delta > 0
    /\ mover.movement_intent = 1
    /\ mover.rotation_intent = -1
    /\ mover.rotation.angle = AngleUnits - 3 * (FixedHz \div 4)
    /\ mover.translation.x > 0
    /\ mover.translation.y > 0

----------------------------------------------------------------------------
(* tick_step_sfx and trigger_step_sfx, frame after frame.                  *)

MaxSfxFrames == 5
SfxInputs == {{}, {"KeyW"}, {"ArrowUp", "KeyA"}}
SfxDeltas == {0, FixedHz \div 10, FixedHz \div 5}
Cooldowns == {FixedHz \div 10, FixedHz \div 4}

InitSfx ==
    /\ InitUpdate(<<"record_movement_controller", "tick_step_sfx",
                    "trigger_step_sfx">>, 0)
    /\ phase = "First"
    /\ ran = << >>
    /\ \E cooldown \in Cooldowns :
          mover = Mover(Vec3(0, 0, 0), Rot(0), 300, 3, cooldown)
    /\ window = NoMover

BeginSfxFrame == BeginUpdateFrame(SfxInputs, SfxDeltas, MaxSfxFrames)

NextSfx ==
    \/ BeginSfxFrame
    \/ record_movement_controller
    \/ tick_step_sfx
    \/ trigger_step_sfx

SpecSfx == InitSfx /\ [][NextSfx]_vars

\* C5: a step cue is raised only when the cooldown timer has completed and
\* the movement intent is not 0; raising it resets the timer; and between
\* two consecutive cues the ticked frame time is at least the cooldown.
C5_CueCooldown ==
    [][cues' # cues =>
         /\ cues' = cues + 1
         /\ mover.cooldown_timer.finished
         /\ mover.cooldown_timer.elapsed >= mover.cooldown_timer.duration
         /\ mover.movement_intent # 0
         /\ mover'.cooldown_timer.elapsed = 0
         /\ ~mover'.cooldown_timer.finished
         /\ cues > 0 => sinceCue >= mover.cooldown_timer.duration]_vars

\* the second cue has just been raised with the key held since the first,
\* under the longer cooldown
C5_Witness ==
    /\ LastRan = "trigger_step_sfx"
    /\ cues = 2
    /\ sinceCue = 0
    /\ mover.movement_intent # 0
    /\ mover.cooldown_timer.duration = FixedHz \div 4
    /\ mover.cooldown_timer.elapsed = 0

----------------------------------------------------------------------------
(* wrap_within_window as a function of the position and the window.        *)

WindowSizes ==
    {[width |-> 1280, height |-> 720], [width |-> 720, height |-> 1280]}

\* positions on one axis: inside, on and just outside the edges, far away
AxisSamples ==
    {0, F32(100), F32(664), F32(665), F32(-665), F32(-665) - 2,
     F32(-385) - 1, F32(385), F32(425), F32(-425), F32(2000),
     F32(-3000)}

InitWrap ==
    /\ InitUpdate(<<"wrap_within_window">>, 1)
    /\ phase = "Update"
    /\ ran = << >>
    /\ window \in WindowSizes
    /\ \E x, y \in AxisSamples, z \in {0, F32(5)} :
          mover = Mover(Vec3(RoundF32(x), RoundF32(y), z), Rot(0), 300, 3,
                        FixedHz \div 4)

NextWrap == wrap_within_window

SpecWrap == InitWrap /\ [][NextWrap]_vars

\* size / 2 for the window size on one axis
HalfSize(window_size) == (F32(window_size) + F32(50)) \div 2

Wrapped(v, window_size) ==
    /\ -HalfSize(window_size) <= v
    /\ v < HalfSize(window_size)

\* C6: wrap_within_window maps x and y into [-half_size, half_size),
\* congruent to the original modulo size, leaves z unchanged, and a second
\* application returns the same position.
C6_WrapIntoWindow ==
    [][UpdateSystem("wrap_within_window") =>
         /\ Wrapped(mover'.translation.x, window.width)
         /\ Wrapped(mover'.translation.y, window.height)
         /\ (mover'.translation.x - mover.translation.x)
              % (2 * HalfSize(window.width)) = 0
         /\ (mover'.translation.y - mover.translation.y)
              % (2 * HalfSize(window.height)) = 0
         /\ mover'.translation.z = mover.translation.z
         /\ WrapWithinWindow(mover', window) = mover']_vars

----------------------------------------------------------------------------
(* The whole program from a world late in a session: the health is full or *)
(* low and the ships have closed in on the player.                         *)

\* where each of setup's four ships and the spawned enemy stands
\* relative to the player: in range or far away
CloseOffsets ==
    {<<a, b, c, d, e>> :
        a \in {Vec3(Px(-29), 0, 0), Vec3(Px(-300), Px(-160), 0)},
        b \in {Vec3(0, Px(-29), 0), Vec3(Px(-300), Px(-160), 0)},
        c \in {Vec3(Px(-17), Px(-24), 0), Vec3(Px(300), 0, 0)},
        d \in {Vec3(Px(17), Px(-24), 0)},
        e \in {Vec3(Px(20), Px(20), 0), Vec3(Px(300), Px(160), 0)}}

InitDefeat ==
    /\ \E h \in HealthValues, offs \in CloseOffsets :
          /\ ents = Placed(Vec3(0, 0, 0), offs, h)
          /\ hits = (InitialHealth - h) \div Damage
    /\ status = "running"
    /\ keys = {}
    /\ keyEvents = 0
    /\ delta = 0
    /\ acc = 0
    /\ greet = 0
    /\ spawned = 1
    /\ ticks = 0
    /\ phase = "First"
    /\ pc = 0
    /\ order \in NearOrders
    /\ ran = << >>
    /\ mover = NoMover
    /\ window = NoMover
    /\ cues = 0
    /\ sinceCue = 0

SpecDefeat == InitDefeat /\ [][NextAnyOrder]_vars

\* the hits a pass applies: one per Enemy-tagged entity in range, up to
\* the hit that brings the health to 0
HitsApplied(es) ==
    Min(Cardinality(TaggedInRange(es)),
        es[Single(PlayerQuery(es))].health \div Damage)

HealthInRange ==
    /\ PlayerHealth \in 0 .. InitialHealth
    /\ PlayerHealth % Damage = 0

\* C11: the health is always a multiple of 10 in 0..100; it never
\* increases and only collision_system changes it; a pass stops at the
\* first hit that brings the health to 0, even with more enemies in range,
\* and the process ends exactly then.
C11_HealthSteps ==
    /\ []HealthInRange
    /\ [][/\ PlayerHealth' <= PlayerHealth
          /\ PlayerHealth' # PlayerHealth => Scheduled("collision_system")
          /\ Scheduled("collision_system") =>
                /\ PlayerHealth' = PlayerHealth - Damage * HitsApplied(ents)
                /\ hits' = hits + HitsApplied(ents)
                /\ (status' = "exit0") = (PlayerHealth' = 0)]_vars

\* the first pass ended the process at health 0 with three tagged enemies
\* in range: more than the one or two hits the health had left
C11_Witness ==
    /\ status = "exit0"
    /\ ticks = 1
    /\ PlayerHealth = 0
    /\ Cardinality(TaggedInRange(ents)) >= 3

====
